---- MODULE Spec2Model ----
(***************************************************************************)
(* Model of lab_5_scrapper/scrapper.py: configuration validation, the      *)
(* crawler that collects article URLs from seed listing pages, the article *)
(* parser (text, meta information, date format) and the main pipeline.     *)
(*                                                                         *)
(* Python strings are sequences of one-character strings, so that slicing, *)
(* concatenation, joining, replacing and parsing are computed as the code  *)
(* computes them.                                                          *)
(***************************************************************************)
EXTENDS Integers, Sequences, FiniteSets, TLC

VARIABLES
    pc,             \* position of main() / of the text-assembly harness
    err,            \* the exception that ended the run, "none" otherwise
    config,         \* the decoded JSON configuration file
    seed_urls,      \* Config._seed_urls
    num_articles,   \* Config._num_articles
    envPrepared,    \* prepare_environment has cleared/created ASSETS_PATH
    seedIdx,        \* position of the for loop of find_articles
    urls,           \* Crawler.urls
    article_bs,     \* the parsed listing page of the current seed
    extracted_url,  \* local extracted_url of find_articles
    i,              \* enumerate index of the article loop of main
    article,        \* HTMLParser.article of the current parser
    response_ok,    \* response.ok of the current article fetch
    soup,           \* the parsed page of the latest ok article fetch
                    \* (mutated by decompose)
    rawWritten,     \* identifiers handed to to_raw, in call order
    metaWritten,    \* identifiers handed to to_meta, in call order
    requests,       \* make_request calls so far: <<url, ok>>, in call order
    candidates,     \* rewritten card links of the ok listing pages so far, in
                    \* fetch and document order, later duplicates removed
    texts           \* results of the text assemblies of the text harness

vars == <<pc, err, config, seed_urls, num_articles, envPrepared, seedIdx, urls,
          article_bs, extracted_url, i, article, response_ok, soup,
          rawWritten, metaWritten, requests, candidates, texts>>

-----------------------------------------------------------------------------
(* Bounds of the model *)

MaxSeeds == 2      \* longest seed list of a configuration
MaxLinks == 3      \* most card links on one listing page
MaxParas == 7      \* most paragraph elements on a page of the text harness
MaxRuns == 2       \* text assemblies applied to one parsed page

-----------------------------------------------------------------------------
(* Strings *)

EmptyStr == <<>>
NBSP == "nbsp"                       \* the character '\xa0'
NL == "nl"                           \* the character '\n'

Range(s) == {s[k] : k \in 1..Len(s)}

\* Python s[n:]
SliceFrom(s, n) == SubSeq(s, n + 1, Len(s))

\* Python s.startswith(p)
StartsWith(s, p) == Len(s) >= Len(p) /\ SubSeq(s, 1, Len(p)) = p

\* Python str.replace(old, new) for one-character old and new
Replace(s, old, new) == [k \in 1..Len(s) |-> IF s[k] = old THEN new ELSE s[k]]

\* Python sep.join(parts)
RECURSIVE Join(_, _)
Join(parts, sep) ==
    IF Len(parts) = 0 THEN EmptyStr
    ELSE IF Len(parts) = 1 THEN parts[1]
    ELSE parts[1] \o <<sep>> \o Join(Tail(parts), sep)

RECURSIVE LStrip(_)
LStrip(s) == IF Len(s) > 0 /\ Head(s) = " " THEN LStrip(Tail(s)) ELSE s

RECURSIVE RStrip(_)
RStrip(s) ==
    IF Len(s) > 0 /\ s[Len(s)] = " " THEN RStrip(SubSeq(s, 1, Len(s) - 1)) ELSE s

\* Python str.strip()
Strip(s) == RStrip(LStrip(s))

\* Sequences over S of length 0..n
SeqUpTo(S, n) == UNION {[1..k -> S] : k \in 0..n}

-----------------------------------------------------------------------------
(* The configuration file: decoded JSON values carry their Python type *)

JInt(n) == [type |-> "int", n |-> n, items |-> <<>>]
JBool(b) == [type |-> "bool", n |-> IF b THEN 1 ELSE 0, items |-> <<>>]
JList(items) == [type |-> "list", n |-> 0, items |-> items]
JOther(t) == [type |-> t, n |-> 0, items |-> <<>>]

\* isinstance(v, int): bool is a subclass of int
IsInt(v) == v.type \in {"int", "bool"}
IsList(v) == v.type = "list"
IsDict(v) == v.type = "dict"
IsStr(v) == v.type = "str"
IsBool(v) == v.type = "bool"

GoodSeed == <<"h","t","t","p","s",":","/","/","a">>
PlainSeed == <<"h","t","t","p",":","/","/","b">>
BadSeed == <<"f","t","p",":","/","/","c">>
SeedStrings == {GoodSeed, PlainSeed, BadSeed}
SeedUrlsLists == SeqUpTo(SeedStrings, MaxSeeds)

SeedUrlsValues == {JOther("str")} \cup {JList(l) : l \in SeedUrlsLists}
TotalArticlesValues ==
    {JInt(0 - 1), JInt(0), JInt(1), JInt(2), JInt(150), JInt(151),
     JOther("str"), JOther("float")}
HeadersValues == {JOther("dict"), JOther("list")}
EncodingValues == {JOther("str"), JInt(8)}
TimeoutValues == {JInt(0), JInt(5), JInt(60), JOther("str")}
FlagValues == {JBool(TRUE), JOther("str")}

Configs ==
    [seed_urls : SeedUrlsValues,
     total_articles_to_find_and_parse : TotalArticlesValues,
     headers : HeadersValues,
     encoding : EncodingValues,
     timeout : TimeoutValues,
     should_verify_certificate : FlagValues,
     headless_mode : FlagValues]

ConfigErrors ==
    {"IncorrectSeedURLError", "NumberOfArticlesOutOfRangeError",
     "IncorrectNumberOfArticlesError", "IncorrectHeadersError",
     "IncorrectEncodingError", "IncorrectTimeoutError", "IncorrectVerifyError"}

\* re.match(r'https?://(www.)?', seed_url): the optional group always matches
SeedPrefixHttp == <<"h","t","t","p",":","/","/">>
SeedPrefixHttps == <<"h","t","t","p","s",":","/","/">>
MatchesSeedPattern(seed_url) ==
    StartsWith(seed_url, SeedPrefixHttp) \/ StartsWith(seed_url, SeedPrefixHttps)

\* the range test of line 106
InArticleRange(n) == 0 < n /\ n <= 150

\* Config._validate_config_content: the exception raised, "none" if none
ValidateConfigContent(c) ==
    IF ~IsList(c.seed_urls) THEN "IncorrectSeedURLError"
    ELSE IF ~(IsList(c.seed_urls)
              /\ \A k \in 1..Len(c.seed_urls.items) :
                    MatchesSeedPattern(c.seed_urls.items[k]))
        THEN "IncorrectSeedURLError"
    ELSE IF ~IsInt(c.total_articles_to_find_and_parse)
            \/ c.total_articles_to_find_and_parse.n <= 0
        THEN "IncorrectNumberOfArticlesError"
    ELSE IF ~InArticleRange(c.total_articles_to_find_and_parse.n)
        THEN "NumberOfArticlesOutOfRangeError"
    ELSE IF ~IsDict(c.headers) THEN "IncorrectHeadersError"
    ELSE IF ~IsStr(c.encoding) THEN "IncorrectEncodingError"
    ELSE IF ~IsInt(c.timeout) \/ ~(0 < c.timeout.n /\ c.timeout.n < 60)
        THEN "IncorrectTimeoutError"
    ELSE IF ~IsBool(c.should_verify_certificate) \/ ~IsBool(c.headless_mode)
        THEN "IncorrectVerifyError"
    ELSE "none"

-----------------------------------------------------------------------------
(* Crawler *)

\* Crawler.url_pattern
url_pattern ==
    <<"h","t","t","p","s",":","/","/","v","s","e","4","2",".","r","u",
      "/","a","r","t","i","c","l","e","s">>

\* len('/articles')
ArticlesPrefixLen == 9

\* link.get('href') of an anchor that carries no href attribute
NoneHref == <<"None">>

Href1 == <<"/","a","r","t","i","c","l","e","s","/","1">>
Href2 == <<"/","a","r","t","i","c","l","e","s","/","2">>
Href3 == <<"/","a","r","t","i","c","l","e","s","/","3">>
HrefAlt1 == <<"/","n","e","w","s","f","e","e","d","/","1">>
Hrefs == {Href1, Href2, Href3, HrefAlt1, NoneHref}

\* a parsed listing page: the href of each <a class="card-big">, document order
ListingPages == SeqUpTo(Hrefs, MaxLinks)

Returned(v) == [exc |-> "none", val |-> v]
Raised(e) == [exc |-> e, val |-> EmptyStr]

\* url = self.url_pattern + url[len('/articles')::]
RewriteUrl(href) == url_pattern \o SliceFrom(href, ArticlesPrefixLen)

NotCollectedUnchecked(url, collected) == TRUE

\* url not in self.urls
NotCollected(url, collected) == url \notin Range(collected)

ScanLinksFirstOnly(links, k, collected) ==
    IF k > Len(links) THEN Returned(EmptyStr)
    ELSE IF links[k] = NoneHref THEN Raised("TypeError")
    ELSE IF NotCollected(RewriteUrl(links[k]), collected)
        THEN Returned(RewriteUrl(links[k]))
    ELSE Returned(EmptyStr)

\* the for loop of Crawler._extract_url from link k on
RECURSIVE ScanLinks(_, _, _)
ScanLinks(links, k, collected) ==
    IF k > Len(links) THEN Returned(EmptyStr)
    ELSE IF links[k] = NoneHref THEN Raised("TypeError")
    ELSE IF NotCollected(RewriteUrl(links[k]), collected)
        THEN Returned(RewriteUrl(links[k]))
    ELSE ScanLinks(links, k + 1, collected)

ExtractUrlFirstLink(bs, collected) ==
    IF Len(bs) = 0 THEN Returned(EmptyStr)
    ELSE IF bs[1] = NoneHref THEN Raised("TypeError")
    ELSE Returned(RewriteUrl(bs[1]))

ExtractUrlLastFirst(bs, collected) ==
    ScanLinks([k \in 1..Len(bs) |-> bs[Len(bs) + 1 - k]], 1, collected)

\* Crawler._extract_url
ExtractUrl(bs, collected) == ScanLinks(bs, 1, collected)

TargetReachedLate(collected, n) == Len(collected) = n + 1

\* len(self.urls) == self.config.get_num_articles()
TargetReached(collected, n) == Len(collected) = n

StopAfterSeedNever(collected, n) == FALSE

\* the test of lines 261-262 that leaves the for loop over the seeds
StopAfterSeed(collected, n) == TargetReached(collected, n)

AfterFailedSeedBreak(k, n) == n + 1

\* if not response.ok: continue -- the position of the for loop over n seeds
\* after seed k was not ok
AfterFailedSeed(k, n) == k + 1

NoPage == <<>>

\* the sequence acc extended by the rewritten card links of one listing page,
\* in document order, each link that is already in it left out
RECURSIVE AddCandidates(_, _)
AddCandidates(acc, links) ==
    IF Len(links) = 0 THEN acc
    ELSE IF Head(links) = NoneHref THEN AddCandidates(acc, Tail(links))
    ELSE IF RewriteUrl(Head(links)) \in Range(acc)
        THEN AddCandidates(acc, Tail(links))
    ELSE AddCandidates(Append(acc, RewriteUrl(Head(links))), Tail(links))

-----------------------------------------------------------------------------
(* Parsed article pages *)

\* a <p> element: cls is "footer" or "lead" when the element, or an element
\* around it, carries that class, "content" otherwise; text is its .text
Para(cls, text) == [cls |-> cls, text |-> text]
ParaKinds ==
    {Para("content", <<"a">>), Para("content", <<NBSP, "b">>),
     Para("content", EmptyStr), Para("footer", <<"f">>), Para("lead", <<"l">>)}

NoH1 == [present |-> FALSE, string |-> EmptyStr]
H1(string) == [present |-> TRUE, string |-> string]

NoTime == [present |-> FALSE, has_datetime |-> FALSE, datetime |-> EmptyStr]
TimeNoAttr == [present |-> TRUE, has_datetime |-> FALSE, datetime |-> EmptyStr]
Time(d) == [present |-> TRUE, has_datetime |-> TRUE, datetime |-> d]

\* '2023-05-10T12:00:00+0300'
DateStamped ==
    <<"2","0","2","3","-","0","5","-","1","0","T","1","2",":","0","0",":","0","0",
      "+","0","3","0","0">>
\* '2023-02-30T12:00:00+0300'
DateNoSuchDay ==
    <<"2","0","2","3","-","0","2","-","3","0","T","1","2",":","0","0",":","0","0",
      "+","0","3","0","0">>
\* date_example = '2024-01-01'
date_example == <<"2","0","2","4","-","0","1","-","0","1">>
\* str(None)
StrNone == <<"N","o","n","e">>

Page(h1, time, paras, topics) ==
    [h1 |-> h1, time |-> time, paras |-> paras, topics |-> topics]

PipelineParas ==
    {<<>>,
     <<Para("content", <<"a">>), Para("footer", <<"f">>),
       Para("content", <<NBSP, "b">>), Para("content", EmptyStr),
       Para("lead", <<"l">>), Para("content", <<"a">>), Para("content", <<"a">>),
       Para("content", <<"a">>), Para("content", <<"a">>)>>}

\* the article pages a fetch of the pipeline can return
ArticlePages ==
    {Page(h, t, ps, <<<<" ", "r", " ">>>>) :
        h \in {NoH1, H1(<<" ", "T", " ">>)},
        t \in {NoTime, TimeNoAttr, Time(DateStamped), Time(DateNoSuchDay)},
        ps \in PipelineParas}

\* the article pages of the text harness
TextPages ==
    {Page(H1(<<"T">>), NoTime, ps, <<>>) : ps \in SeqUpTo(ParaKinds, MaxParas)}

-----------------------------------------------------------------------------
(* HTMLParser *)

\* Article(self.full_url, self.article_id); filled names the attributes the
\* parser has assigned
NewArticle(full_url, article_id) ==
    [url |-> full_url, article_id |-> article_id, text |-> EmptyStr,
     title |-> EmptyStr, date |-> <<>>, topics |-> <<>>, author |-> <<>>,
     filled |-> {}]

NoArticle == NewArticle(EmptyStr, 0)

\* for clas in article_soup.find_all(class_=cls): clas.decompose()
Decompose(paras, cls) == SelectSeq(paras, LAMBDA p : p.cls # cls)

\* the tree after both decompose loops of _fill_article_with_text
StripRegions(paras) == Decompose(Decompose(paras, "footer"), "lead")

TextBlocksDropFour(paras) == SubSeq(paras, 1, Len(paras) - 4)

\* article_soup.find_all('p')[:-5]
TextBlocks(paras) == SubSeq(paras, 1, Len(paras) - 5)

\* [text_block.text for text_block in text_blocks if text_block.text]
RawText(blocks) ==
    LET kept == SelectSeq(blocks, LAMBDA p : p.text # EmptyStr)
    IN  [k \in 1..Len(kept) |-> kept[k].text]

\* the value HTMLParser._fill_article_with_text assigns to article.text
CleanText(paras) ==
    Replace(Join(RawText(TextBlocks(StripRegions(paras))), NL), NBSP, " ")

Digits == {"0", "1", "2", "3", "4", "5", "6", "7", "8", "9"}

DigitVal(c) ==
    CASE c = "0" -> 0 [] c = "1" -> 1 [] c = "2" -> 2 [] c = "3" -> 3
      [] c = "4" -> 4 [] c = "5" -> 5 [] c = "6" -> 6 [] c = "7" -> 7
      [] c = "8" -> 8 [] c = "9" -> 9

AllDigits(s, a, b) == \A k \in a..b : s[k] \in Digits

Num2(s, k) == 10 * DigitVal(s[k]) + DigitVal(s[k + 1])

Num4(s, k) == 100 * Num2(s, k) + Num2(s, k + 2)

IsLeap(y) == (y % 4 = 0 /\ y % 100 # 0) \/ y % 400 = 0

DaysInMonth(y, m) ==
    IF m = 2 THEN (IF IsLeap(y) THEN 29 ELSE 28)
    ELSE IF m \in {4, 6, 9, 11} THEN 30 ELSE 31

\* the shape '%Y-%m-%dT%H:%M:%S%z' asks of a string, with two-digit month,
\* day, hour, minute and second and a +HHMM or -HHMM offset
HasDateShape(s) ==
    /\ Len(s) = 24
    /\ AllDigits(s, 1, 4) /\ s[5] = "-"
    /\ AllDigits(s, 6, 7) /\ s[8] = "-"
    /\ AllDigits(s, 9, 10) /\ s[11] = "T"
    /\ AllDigits(s, 12, 13) /\ s[14] = ":"
    /\ AllDigits(s, 15, 16) /\ s[17] = ":"
    /\ AllDigits(s, 18, 19) /\ s[20] \in {"+", "-"}
    /\ AllDigits(s, 21, 24)

\* HTMLParser.unify_date_format: datetime.datetime.strptime(date_str,
\* '%Y-%m-%dT%H:%M:%S%z'); the timestamp is <<year, month, day, hour, minute,
\* second, utc offset in minutes>>; a string of another shape or naming no
\* calendar instant raises ValueError
UnifyDateFormat(date_str) ==
    IF ~HasDateShape(date_str) THEN Raised("ValueError")
    ELSE LET Y == Num4(date_str, 1)
             m == Num2(date_str, 6)
             d == Num2(date_str, 9)
             H == Num2(date_str, 12)
             M == Num2(date_str, 15)
             S == Num2(date_str, 18)
             oh == Num2(date_str, 21)
             om == Num2(date_str, 23)
             off == IF date_str[20] = "-" THEN 0 - (60 * oh + om)
                    ELSE 60 * oh + om
         IN  IF /\ Y >= 1 /\ m \in 1..12 /\ d \in 1..DaysInMonth(Y, m)
                /\ H <= 23 /\ M <= 59 /\ S <= 59 /\ om <= 59
             THEN Returned(<<Y, m, d, H, M, S, off>>)
             ELSE Raised("ValueError")

\* the argument _fill_article_with_meta_information hands to unify_date_format
DateArgument(time) ==
    IF time.present
    THEN (IF time.has_datetime THEN time.datetime ELSE StrNone)
    ELSE date_example

\* HTMLParser._fill_article_with_meta_information: the exception raised and
\* the article as the method leaves it
FillMeta(a, page) ==
    LET a1 == [a EXCEPT !.author = <<"NOT FOUND">>,
                        !.filled = @ \cup {"author"}]
        parsed == UnifyDateFormat(DateArgument(page.time))
    IN  IF ~page.h1.present THEN [exc |-> "AttributeError", article |-> a1]
        ELSE LET a2 == [a1 EXCEPT !.title = Strip(page.h1.string),
                                  !.filled = @ \cup {"title"}]
             IN  IF parsed.exc # "none"
                 THEN [exc |-> parsed.exc, article |-> a2]
                 ELSE [exc |-> "none",
                       article |->
                           [a2 EXCEPT !.date = parsed.val,
                                      !.topics = [k \in 1..Len(page.topics) |->
                                                     Strip(page.topics[k])],
                                      !.filled = @ \cup {"date", "topics"}]]

\* enumerate(crawler.urls, 1)
EnumerateStart == 1

ArticleIdFromZero(k) == k - 1

\* the identifier enumerate gives the k-th element of crawler.urls
ArticleId(k) == EnumerateStart + (k - 1)

NoSoup == Page(NoH1, NoTime, <<>>, <<>>)

-----------------------------------------------------------------------------
(* main *)

Init ==
    /\ pc = "config"
    /\ err = "none"
    /\ config \in Configs
    /\ seed_urls = <<>>
    /\ num_articles = 0
    /\ envPrepared = FALSE
    /\ seedIdx = 1
    /\ urls = <<>>
    /\ article_bs = NoPage
    /\ extracted_url = EmptyStr
    /\ i = 0
    /\ article = NoArticle
    /\ response_ok = FALSE
    /\ soup = NoSoup
    /\ rawWritten = <<>>
    /\ metaWritten = <<>>
    /\ requests = <<>>
    /\ candidates = <<>>
    /\ texts = <<>>

AfterValidationReported(e) == "prepare"

\* where main goes on after Config(...) of line 390: an exception of
\* _validate_config_content leaves Config.__init__ and main
AfterValidation(e) == IF e # "none" THEN "aborted" ELSE "prepare"

\* Config.__init__ and Crawler.__init__ (lines 390-391)
LoadConfig ==
    /\ pc = "config"
    /\ LET e == ValidateConfigContent(config)
       IN  /\ pc' = AfterValidation(e)
           /\ IF e # "none"
              THEN /\ err' = e
                   /\ UNCHANGED <<seed_urls, num_articles>>
              ELSE /\ seed_urls' = config.seed_urls.items
                   /\ num_articles' = config.total_articles_to_find_and_parse.n
                   /\ err' = err
    /\ urls' = <<>>
    /\ UNCHANGED <<config, envPrepared, seedIdx, article_bs, extracted_url, i,
                   article, response_ok, soup, rawWritten, metaWritten,
                   requests, candidates, texts>>

\* prepare_environment(base_path)
PrepareEnvironment ==
    /\ pc = "prepare"
    /\ envPrepared' = TRUE
    /\ pc' = "seed_loop"
    /\ UNCHANGED <<err, config, seed_urls, num_articles, seedIdx, urls,
                   article_bs, extracted_url, i, article, response_ok, soup,
                   rawWritten, metaWritten, requests, candidates, texts>>

\* find_articles, lines 247-250: the fetch of the next seed is not ok
FetchSeedNotOk ==
    /\ pc = "seed_loop"
    /\ seedIdx <= Len(seed_urls)
    /\ requests' = Append(requests, <<seed_urls[seedIdx], FALSE>>)
    /\ seedIdx' = AfterFailedSeed(seedIdx, Len(seed_urls))
    /\ UNCHANGED <<pc, err, config, seed_urls, num_articles, envPrepared, urls,
                   article_bs, extracted_url, i, article, response_ok, soup,
                   rawWritten, metaWritten, candidates, texts>>

\* find_articles, lines 247-254: the fetch is ok, the page is parsed and the
\* first _extract_url call is made
FetchSeedOk ==
    /\ pc = "seed_loop"
    /\ seedIdx <= Len(seed_urls)
    /\ \E page \in ListingPages :
          LET r == ExtractUrl(page, urls)
          IN  /\ article_bs' = page
              /\ extracted_url' = r.val
              /\ IF r.exc # "none"
                 THEN pc' = "aborted" /\ err' = r.exc
                 ELSE pc' = "extracting" /\ err' = err
    /\ requests' = Append(requests, <<seed_urls[seedIdx], TRUE>>)
    /\ candidates' = AddCandidates(candidates, article_bs')
    /\ UNCHANGED <<config, seed_urls, num_articles, envPrepared, seedIdx, urls,
                   i, article, response_ok, soup, rawWritten, metaWritten,
                   texts>>

\* find_articles, lines 255-259: one iteration of the while loop
AppendUrl ==
    /\ pc = "extracting"
    /\ extracted_url # EmptyStr
    /\ ~TargetReached(urls, num_articles)
    /\ urls' = Append(urls, extracted_url)
    /\ LET r == ExtractUrl(article_bs, urls')
       IN  /\ extracted_url' = r.val
           /\ IF r.exc # "none"
              THEN pc' = "aborted" /\ err' = r.exc
              ELSE pc' = pc /\ err' = err
    /\ UNCHANGED <<config, seed_urls, num_articles, envPrepared, seedIdx,
                   article_bs, i, article, response_ok, soup, rawWritten,
                   metaWritten, requests, candidates, texts>>

\* find_articles, lines 255-257 and 261-262: the while loop ends (empty
\* result, or break) and the target test decides between the next seed and
\* the end of find_articles
LeaveSeed ==
    /\ pc = "extracting"
    /\ extracted_url = EmptyStr \/ TargetReached(urls, num_articles)
    /\ IF StopAfterSeed(urls, num_articles)
       THEN pc' = "article_loop" /\ seedIdx' = seedIdx
       ELSE pc' = "seed_loop" /\ seedIdx' = seedIdx + 1
    /\ article_bs' = NoPage
    /\ extracted_url' = EmptyStr
    /\ UNCHANGED <<err, config, seed_urls, num_articles, envPrepared, urls, i,
                   article, response_ok, soup, rawWritten, metaWritten,
                   requests, candidates, texts>>

\* find_articles, line 247: the seed list is exhausted
SeedsExhausted ==
    /\ pc = "seed_loop"
    /\ seedIdx > Len(seed_urls)
    /\ pc' = "article_loop"
    /\ UNCHANGED <<err, config, seed_urls, num_articles, envPrepared, seedIdx,
                   urls, article_bs, extracted_url, i, article, response_ok,
                   soup, rawWritten, metaWritten, requests, candidates, texts>>

\* main, lines 396-398, and HTMLParser.parse, lines 364-365 and 370: the
\* parser of the next URL is built and its fetch is not ok
ArticleFetchNotOk ==
    /\ pc = "article_loop"
    /\ i < Len(urls)
    /\ i' = i + 1
    /\ article' = NewArticle(urls[i + 1], ArticleId(i + 1))
    /\ requests' = Append(requests, <<urls[i + 1], FALSE>>)
    /\ response_ok' = FALSE
    /\ soup' = NoSoup
    /\ pc' = "to_raw"
    /\ UNCHANGED <<err, config, seed_urls, num_articles, envPrepared, seedIdx,
                   urls, article_bs, extracted_url, rawWritten, metaWritten,
                   candidates, texts>>

\* main, lines 396-398, and HTMLParser.parse, lines 364-366: the parser of
\* the next URL is built, its fetch is ok and the page is parsed
ArticleFetchOk ==
    /\ pc = "article_loop"
    /\ i < Len(urls)
    /\ i' = i + 1
    /\ article' = NewArticle(urls[i + 1], ArticleId(i + 1))
    /\ requests' = Append(requests, <<urls[i + 1], TRUE>>)
    /\ response_ok' = TRUE
    /\ soup' \in ArticlePages
    /\ pc' = "fill_text"
    /\ UNCHANGED <<err, config, seed_urls, num_articles, envPrepared, seedIdx,
                   urls, article_bs, extracted_url, rawWritten, metaWritten,
                   candidates, texts>>

SoupAfterTextTruncated(paras) == TextBlocks(StripRegions(paras))

\* the <p> elements left in article_soup when _fill_article_with_text
\* returns: the decompose loops edit the tree, the slice does not
SoupAfterText(paras) == StripRegions(paras)

\* HTMLParser._fill_article_with_text on the parsed page in soup
FillArticleWithText ==
    /\ article' = [article EXCEPT !.text = CleanText(soup.paras),
                                  !.filled = @ \cup {"text"}]
    /\ soup' = [soup EXCEPT !.paras = SoupAfterText(@)]

\* HTMLParser.parse, line 367
FillText ==
    /\ pc = "fill_text"
    /\ FillArticleWithText
    /\ pc' = "fill_meta"
    /\ UNCHANGED <<err, config, seed_urls, num_articles, envPrepared, seedIdx,
                   urls, article_bs, extracted_url, i, response_ok, rawWritten,
                   metaWritten, requests, candidates, texts>>

\* HTMLParser.parse, lines 368-370: an exception of
\* _fill_article_with_meta_information leaves parse and main
FillMetaInformation ==
    /\ pc = "fill_meta"
    /\ LET r == FillMeta(article, soup)
       IN  /\ article' = r.article
           /\ IF r.exc # "none"
              THEN pc' = "aborted" /\ err' = r.exc
              ELSE pc' = "to_raw" /\ err' = err
    /\ UNCHANGED <<config, seed_urls, num_articles, envPrepared, seedIdx, urls,
                   article_bs, extracted_url, i, response_ok, soup, rawWritten,
                   metaWritten, requests, candidates, texts>>

\* isinstance(article, Article) of line 399: parse returns self.article on
\* every path
IsArticle(a) == TRUE

\* main, lines 399-400
ToRaw ==
    /\ pc = "to_raw"
    /\ IF IsArticle(article)
       THEN rawWritten' = Append(rawWritten, article.article_id) /\ pc' = "to_meta"
       ELSE rawWritten' = rawWritten /\ pc' = "article_loop"
    /\ UNCHANGED <<err, config, seed_urls, num_articles, envPrepared, seedIdx,
                   urls, article_bs, extracted_url, i, article, response_ok,
                   soup, metaWritten, requests, candidates, texts>>

\* main, line 401
ToMeta ==
    /\ pc = "to_meta"
    /\ metaWritten' = Append(metaWritten, article.article_id)
    /\ pc' = "article_loop"
    /\ UNCHANGED <<err, config, seed_urls, num_articles, envPrepared, seedIdx,
                   urls, article_bs, extracted_url, i, article, response_ok,
                   soup, rawWritten, requests, candidates, texts>>

\* main, line 396: crawler.urls is exhausted and main returns
Finish ==
    /\ pc = "article_loop"
    /\ i = Len(urls)
    /\ pc' = "done"
    /\ UNCHANGED <<err, config, seed_urls, num_articles, envPrepared, seedIdx,
                   urls, article_bs, extracted_url, i, article, response_ok,
                   soup, rawWritten, metaWritten, requests, candidates, texts>>

Next ==
    \/ LoadConfig
    \/ PrepareEnvironment
    \/ FetchSeedNotOk
    \/ FetchSeedOk
    \/ AppendUrl
    \/ LeaveSeed
    \/ SeedsExhausted
    \/ ArticleFetchNotOk
    \/ ArticleFetchOk
    \/ FillText
    \/ FillMetaInformation
    \/ ToRaw
    \/ ToMeta
    \/ Finish

Spec == Init /\ [][Next]_vars

\* main up to the return of find_articles (lines 390-394); the program is one
\* thread that runs on while a statement is left to run
CrawlNext ==
    \/ LoadConfig
    \/ PrepareEnvironment
    \/ FetchSeedNotOk
    \/ FetchSeedOk
    \/ AppendUrl
    \/ LeaveSeed
    \/ SeedsExhausted

CrawlSpec == Init /\ [][CrawlNext]_vars /\ WF_vars(CrawlNext)

-----------------------------------------------------------------------------
(* Text assembly on its own: _fill_article_with_text applied, up to MaxRuns *)
(* times, to one parsed page drawn from TextPages                          *)

ValidConfig ==
    [seed_urls |-> JList(<<>>),
     total_articles_to_find_and_parse |-> JInt(1),
     headers |-> JOther("dict"),
     encoding |-> JOther("str"),
     timeout |-> JInt(5),
     should_verify_certificate |-> JBool(TRUE),
     headless_mode |-> JBool(TRUE)]

TextInit ==
    /\ pc = "text"
    /\ err = "none"
    /\ config = ValidConfig
    /\ seed_urls = <<>>
    /\ num_articles = 1
    /\ envPrepared = FALSE
    /\ seedIdx = 1
    /\ urls = <<>>
    /\ article_bs = NoPage
    /\ extracted_url = EmptyStr
    /\ i = 1
    /\ article = NewArticle(RewriteUrl(Href1), 1)
    /\ response_ok = TRUE
    /\ soup \in TextPages
    /\ rawWritten = <<>>
    /\ metaWritten = <<>>
    /\ requests = <<>>
    /\ candidates = <<>>
    /\ texts = <<>>

TextAssembly ==
    /\ pc = "text"
    /\ Len(texts) < MaxRuns
    /\ FillArticleWithText
    /\ texts' = Append(texts, article'.text)
    /\ UNCHANGED <<pc, err, config, seed_urls, num_articles, envPrepared,
                   seedIdx, urls, article_bs, extracted_url, i, response_ok,
                   rawWritten, metaWritten, requests, candidates>>

TextNext == TextAssembly

TextSpec == TextInit /\ [][TextNext]_vars

-----------------------------------------------------------------------------
(* Properties *)

IsSeedRequest(r) == r[1] \in SeedStrings

\* find_articles has returned
FindArticlesFinished ==
    pc \in {"article_loop", "fill_text", "fill_meta", "to_raw", "to_meta", "done"}
    \/ (pc = "aborted" /\ i >= 1)

Min(a, b) == IF a <= b THEN a ELSE b

\* C1: Crawler.urls never holds a URL twice, whatever the seeds processed and
\* the appends made, also when one card link is on several pages or several
\* times on a page.
C1_NoDuplicateUrls ==
    \A a, b \in 1..Len(urls) : a # b => urls[a] # urls[b]

\* a page that holds twice a link already collected is being extracted
C1_Witness ==
    /\ pc = "extracting"
    /\ Len(urls) >= 2
    /\ \E a, b \in 1..Len(article_bs) :
          /\ a < b
          /\ article_bs[a] # NoneHref /\ article_bs[b] # NoneHref
          /\ RewriteUrl(article_bs[a]) = RewriteUrl(article_bs[b])
          /\ RewriteUrl(article_bs[a]) \in Range(urls)

\* C2: for a validated target count in [1,150], len(Crawler.urls) never
\* exceeds the target count.
C2_BoundedByTarget ==
    pc \notin {"config", "text"} /\ err \notin ConfigErrors
        => /\ num_articles \in 1..150
           /\ Len(urls) <= num_articles

\* the target is reached while the page still has an uncollected link
C2_Witness ==
    /\ pc = "extracting"
    /\ extracted_url # EmptyStr
    /\ Len(urls) = num_articles

\* C3: when the fetch of an article page is not ok, parse assigns no field of
\* the record and main makes neither the raw-text write nor the metadata
\* write for that article.
C3_FailedFetchNotPersisted ==
    i >= 1 /\ ~response_ok /\ FindArticlesFinished
        => /\ article.filled = {}
           /\ article.article_id \notin Range(rawWritten)
           /\ article.article_id \notin Range(metaWritten)

\* C4: an article page fetched ok without an h1 heading is not persisted, and
\* the run is not aborted: the later URLs are still fetched and persisted.
C4_MissingHeadingSkipsOneArticle ==
    i >= 1 /\ response_ok /\ ~soup.h1.present
        => /\ article.article_id \notin Range(rawWritten)
           /\ article.article_id \notin Range(metaWritten)
           /\ pc # "aborted"

\* C5: for an article page with no time element carrying a datetime
\* attribute, meta assembly completes without error and sets date to the
\* timestamp the strict parser gives for the fallback literal 2024-01-01.
C5_DateFallback ==
    (/\ i >= 1 /\ response_ok /\ soup.h1.present
     /\ ~(soup.time.present /\ soup.time.has_datetime)
     /\ pc \notin {"fill_text", "fill_meta"})
        => /\ pc # "aborted"
           /\ UnifyDateFormat(date_example).exc = "none"
           /\ article.date = UnifyDateFormat(date_example).val
           /\ Len(article.date) = 7

\* C6: find_articles ends with urls equal to the first min(target_count, |D|)
\* elements of D, the rewritten card links of the ok seeds' pages in seed and
\* document order with every later duplicate removed.
C6_CollectedIsPrefixOfCandidates ==
    FindArticlesFinished
        => urls = SubSeq(candidates, 1, Min(num_articles, Len(candidates)))

\* one seed with 3 distinct card links and a target of 2 yields the first 2
C6_Witness ==
    /\ FindArticlesFinished
    /\ num_articles = 2
    /\ Len(requests) >= 1 /\ requests[1][2]
    /\ Len(candidates) = 3
    /\ urls = <<candidates[1], candidates[2]>>

\* C7: a non-integer total_articles raises IncorrectNumberOfArticlesError and
\* every integer total_articles outside [1,150], 0 and negative values
\* included, raises NumberOfArticlesOutOfRangeError.
C7_ArticleCountErrorKinds ==
    LET total == config.total_articles_to_find_and_parse
    IN  (/\ pc \notin {"config", "text"}
         /\ IsList(config.seed_urls)
         /\ \A k \in 1..Len(config.seed_urls.items) :
               MatchesSeedPattern(config.seed_urls.items[k]))
            => /\ total.type \notin {"int", "bool"}
                    => err = "IncorrectNumberOfArticlesError"
               /\ total.type = "int" /\ total.n \notin 1..150
                    => err = "NumberOfArticlesOutOfRangeError"

\* C8: identifiers are a strict 1-based enumeration of the final collected
\* sequence: article processing starts after find_articles has finished, the
\* k-th article processed is built from urls[k] with identifier k, and one
\* URL's cycle is over before the next URL's fetch starts.
C8_OrderStability ==
    /\ [](i >= 1 /\ pc # "text"
            => /\ i <= Len(urls)
               /\ article.article_id = i
               /\ article.url = urls[i]
               /\ FindArticlesFinished)
    /\ [][i' # i
            => /\ i' = i + 1
               /\ pc = "article_loop"
               /\ rawWritten = [k \in 1..i |-> k]
               /\ metaWritten = [k \in 1..i |-> k]
               /\ requests' = Append(requests, <<urls[i'], response_ok'>>)]_vars
    /\ [][i >= 1 => urls' = urls]_vars

\* the second article is being processed after the first was persisted
C8_Witness ==
    /\ i = 2
    /\ pc = "fill_text"
    /\ rawWritten = <<1>>
    /\ metaWritten = <<1>>

\* C9: when the fetch of a seed is not ok, find_articles leaves urls
\* unchanged, raises no error and goes on to the next seed in order.
C9_FailedSeedSkipped ==
    [][(/\ pc = "seed_loop"
        /\ Len(requests') = Len(requests) + 1
        /\ ~requests'[Len(requests')][2])
            => /\ urls' = urls
               /\ err' = "none"
               /\ pc' = "seed_loop"
               /\ seedIdx' = seedIdx + 1
               /\ requests'[Len(requests')][1] = seed_urls[seedIdx]]_vars

\* a seed is fetched right after a seed whose fetch was not ok
C9_Witness ==
    \E k \in 1..Len(requests) :
        /\ k < Len(requests)
        /\ IsSeedRequest(requests[k]) /\ ~requests[k][2]
        /\ IsSeedRequest(requests[k + 1])
        /\ Len(urls) >= 1

\* the text the claim describes for the paragraphs left after the footer and
\* lead regions are removed: the non-empty texts among the first max(0, n-5)
\* joined by newlines (non-breaking spaces as ordinary spaces)
ExpectedText(paras) ==
    LET n == Len(paras)
        keep == IF n - 5 > 0 THEN n - 5 ELSE 0
        RECURSIVE Build(_)
        Build(k) ==
            IF k > keep THEN <<>>
            ELSE IF paras[k].text = EmptyStr THEN Build(k + 1)
            ELSE <<paras[k].text>> \o Build(k + 1)
    IN  Replace(Join(Build(1), NL), NBSP, " ")

\* C10: text assembly drops the last five paragraph elements counted after
\* the footer and lead regions are removed; with 5 or fewer paragraphs the
\* text is empty and with 7 exactly the first 2 are retained.
C10_TrailingParagraphsDropped ==
    Len(texts) >= 1
        => /\ texts[1] = ExpectedText(soup.paras)
           /\ Len(soup.paras) <= 5 => texts[1] = EmptyStr
           /\ Len(soup.paras) = 7
                => texts[1] = ExpectedText(
                       <<soup.paras[1], soup.paras[2]>>
                       \o [k \in 1..5 |-> Para("content", EmptyStr)])

\* a page with 7 paragraphs left, of which the first 2 make the text
C10_Witness ==
    /\ Len(texts) >= 1
    /\ Len(soup.paras) = 7
    /\ soup.paras[1].text = <<"a">>
    /\ soup.paras[2].text = <<NBSP, "b">>
    /\ texts[1] = <<"a", NL, " ", "b">>

\* every field of the configuration is of the type and in the range the
\* configuration source promises
AllFieldsValid(c) ==
    /\ c.seed_urls.type = "list"
    /\ \A k \in 1..Len(c.seed_urls.items) :
          \/ StartsWith(c.seed_urls.items[k], SeedPrefixHttp)
          \/ StartsWith(c.seed_urls.items[k], SeedPrefixHttps)
    /\ c.total_articles_to_find_and_parse.type = "int"
    /\ c.total_articles_to_find_and_parse.n \in 1..150
    /\ c.headers.type = "dict"
    /\ c.encoding.type = "str"
    /\ c.timeout.type = "int" /\ c.timeout.n \in 1..59
    /\ c.should_verify_certificate.type = "bool"
    /\ c.headless_mode.type = "bool"

\* C11: if validation fails on any field the error is raised before any
\* crawling: no seed or article fetch is issued, the output directory is not
\* cleared or created and no record is persisted.
C11_ConfigErrorBeforeCrawling ==
    pc \notin {"config", "text"} /\ ~AllFieldsValid(config)
        => /\ pc = "aborted"
           /\ err \in ConfigErrors
           /\ requests = <<>>
           /\ ~envPrepared
           /\ rawWritten = <<>>
           /\ metaWritten = <<>>

\* validation has failed on the last field it tests
C11_Witness ==
    /\ pc = "aborted"
    /\ err = "IncorrectVerifyError"
    /\ Len(config.seed_urls.items) >= 1

\* C12: once len(urls) equals the target count find_articles stops entirely:
\* no further seed is fetched and no further URL is appended, also when
\* unprocessed seeds remain and when the target is reached exactly as a
\* seed's links run out.
C12_StopsAtTarget ==
    [][(/\ pc \notin {"config", "text"}
        /\ num_articles >= 1
        /\ Len(urls) = num_articles)
            => /\ urls' = urls
               /\ seedIdx' = seedIdx
               /\ requests' # requests
                    => ~IsSeedRequest(requests'[Len(requests')])]_vars

\* find_articles has returned on reaching the target with the last link of a
\* page, a seed being left unfetched
C12_Witness ==
    /\ pc = "article_loop"
    /\ i = 0
    /\ Len(urls) = num_articles
    /\ candidates = urls
    /\ seedIdx < Len(seed_urls)
    /\ Len(requests) = seedIdx

\* C13: find_articles always terminates: every iteration of the inner loop
\* appends a URL not yet collected, so the loop over one page ends, and when
\* the seeds run out before the target is reached the collector ends
\* normally, without an error, with what was collected.
C13_FindArticlesTerminates ==
    /\ <>(pc \in {"article_loop", "aborted"})
    /\ [][pc = "extracting" /\ urls' # urls
            => /\ Len(urls') = Len(urls) + 1
               /\ SubSeq(urls', 1, Len(urls)) = urls
               /\ urls'[Len(urls')] \notin Range(urls)
               /\ urls'[Len(urls')] \in
                     {RewriteUrl(article_bs[k]) :
                         k \in {j \in 1..Len(article_bs) : article_bs[j] # NoneHref}}]_vars
    /\ [][(/\ pc = "seed_loop"
           /\ seedIdx > Len(seed_urls)
           /\ Len(urls) < num_articles)
            => /\ pc' = "article_loop"
               /\ err' = "none"
               /\ urls' = urls]_vars

\* the seeds ran out below the target after a page gave two URLs
C13_Witness ==
    /\ pc = "article_loop"
    /\ seedIdx > Len(seed_urls)
    /\ Len(seed_urls) = 2
    /\ Len(urls) >= 2
    /\ Len(urls) < num_articles
    /\ err = "none"

\* the make_request calls of HTMLParser.parse so far, in call order
ArticleRequests == SelectSeq(requests, LAMBDA r : ~IsSeedRequest(r))

\* C14: a failed article fetch is abandoned without retry and never blocks
\* the others: each collected URL is fetched exactly once, in sequence order,
\* and every URL after a failed one is still fetched and processed.
C14_FailedFetchBlocksNothing ==
    LET ar == ArticleRequests
    IN  /\ Len(ar) <= Len(urls)
        /\ \A k \in 1..Len(ar) : ar[k][1] = urls[k]
        /\ (/\ pc \in {"done", "aborted"}
            /\ \E k \in 1..Len(ar) : ~ar[k][2])
                => Len(ar) = Len(urls)

\* every card link of the page has a rewritten URL that collected holds
AllLinksCollected(links, collected) ==
    \A k \in 1..Len(links) :
        /\ links[k] # NoneHref
        /\ RewriteUrl(links[k]) \in Range(collected)

\* C15: _extract_url keeps no state and changes nothing: a call leaves urls
\* as it was, its result is fixed by the page and urls alone (the first
\* rewritten card link that urls does not hold), and it returns the empty
\* signal exactly when every rewritten card link of the page is in urls.
C15_ExtractorIsPure ==
    /\ [](pc = "extracting"
            => /\ extracted_url = EmptyStr <=> AllLinksCollected(article_bs, urls)
               /\ extracted_url # EmptyStr
                    => \E k \in 1..Len(article_bs) :
                          /\ AllLinksCollected(SubSeq(article_bs, 1, k - 1), urls)
                          /\ article_bs[k] # NoneHref
                          /\ extracted_url = RewriteUrl(article_bs[k])
                          /\ extracted_url \notin Range(urls))
    /\ [](pc = "aborted" /\ err = "TypeError"
            => ~AllLinksCollected(article_bs, urls))
    /\ [][pc = "seed_loop" /\ pc' \in {"extracting", "aborted"}
            => urls' = urls]_vars
    /\ [][pc = "extracting" /\ pc' \in {"extracting", "aborted"}
            => urls' = Append(urls, extracted_url) /\ article_bs' = article_bs]_vars

\* the call returned the empty signal on a page whose two links are collected
C15_Witness ==
    /\ pc = "extracting"
    /\ extracted_url = EmptyStr
    /\ Len(article_bs) >= 2
    /\ Len(urls) >= 2
    /\ AllLinksCollected(article_bs, urls)

\* C16: text assembly is idempotent on a parsed page: run again on the page
\* the first run left behind, it assigns the same text as the first run.
C16_TextAssemblyIdempotent ==
    \A k \in 2..Len(texts) : texts[k] = texts[1]

\* two runs on one page, whose text joins several blocks and had a
\* non-breaking space replaced
C16_Witness ==
    /\ pc = "text"
    /\ Len(texts) = MaxRuns
    /\ NL \in Range(texts[1])
    /\ " " \in Range(texts[1])
    /\ texts[MaxRuns] = article.text

====
